---------------------------- MODULE Spec2Model ----------------------------
(***************************************************************************)
(* Model of run_edgex_grid.py: the start-up pipeline of the EdgeX grid     *)
(* bot.  main() resolves its settings from the environment and from        *)
(* configs/edgex.yaml, validates the base URL, asks the authorization      *)
(* service whether the account may run, resolves the poll interval,        *)
(* checks the required settings, builds the adapter and the engine and     *)
(* awaits engine.run().                                                    *)
(*                                                                         *)
(* Python strings are sequences of one-character strings, so that          *)
(* str(), int(), float(), str.lower() and urlparse() are computed the way  *)
(* the interpreter computes them.                                          *)
(***************************************************************************)
EXTENDS Integers, Sequences, FiniteSets, TLC

(***************************************************************************)
(* Python values.  t is the type tag; s holds a str, n/d an int, a bool    *)
(* (n = 1 for True) or a finite float n/d.  "absent" is a key that is not  *)
(* in os.environ / cfg at all (os.getenv and dict.get then yield their     *)
(* default).                                                               *)
(***************************************************************************)
Absent == [t |-> "absent", s |-> <<>>, n |-> 0, d |-> 1]
None == [t |-> "none", s |-> <<>>, n |-> 0, d |-> 1]
VStr(x) == [t |-> "str", s |-> x, n |-> 0, d |-> 1]
VInt(k) == [t |-> "int", s |-> <<>>, n |-> k, d |-> 1]
VBool(b) == [t |-> "bool", s |-> <<>>, n |-> IF b THEN 1 ELSE 0, d |-> 1]
VFloat(num, den) == [t |-> "float", s |-> <<>>, n |-> num, d |-> den]
NaN == [t |-> "nan", s |-> <<>>, n |-> 0, d |-> 1]
Inf == [t |-> "inf", s |-> <<>>, n |-> 0, d |-> 1]
NegInf == [t |-> "ninf", s |-> <<>>, n |-> 0, d |-> 1]
\* An exception raised instead of a value.
Raise(name) == [t |-> "raise", s |-> <<name>>, n |-> 0, d |-> 1]

\* bool(v): the truth value `or`, `not` and `if` use.
Truthy(v) ==
    CASE v.t = "str" -> v.s # <<>>
      [] v.t \in {"int", "bool", "float"} -> v.n # 0
      [] v.t \in {"nan", "inf", "ninf"} -> TRUE
      [] OTHER -> FALSE

\* a or b
Or(a, b) == IF Truthy(a) THEN a ELSE b

(***************************************************************************)
(* Characters.                                                             *)
(***************************************************************************)
UpperChars == <<"A", "B", "C", "D", "E", "F", "G", "H", "I", "J", "K", "L", "M",
                "N", "O", "P", "Q", "R", "S", "T", "U", "V", "W", "X", "Y", "Z">>
LowerChars == <<"a", "b", "c", "d", "e", "f", "g", "h", "i", "j", "k", "l", "m",
                "n", "o", "p", "q", "r", "s", "t", "u", "v", "w", "x", "y", "z">>
DigitChars == <<"0", "1", "2", "3", "4", "5", "6", "7", "8", "9">>
Whitespace == {" ", "\t", "\n", "\r"}

IsUpper(c) == \E i \in 1..26 : UpperChars[i] = c
IsLower(c) == \E i \in 1..26 : LowerChars[i] = c
IsAlpha(c) == IsUpper(c) \/ IsLower(c)
IsDigit(c) == \E i \in 1..10 : DigitChars[i] = c
DigitVal(c) == (CHOOSE i \in 1..10 : DigitChars[i] = c) - 1

LowerChar(c) ==
    IF IsUpper(c) THEN LowerChars[CHOOSE i \in 1..26 : UpperChars[i] = c] ELSE c

\* str.lower()
Lower(s) == [i \in 1..Len(s) |-> LowerChar(s[i])]

\* s.find(c, start): the least index >= start holding c, 0 when there is none
\* (indices are 1-based here).
Find(s, c, start) ==
    IF \E i \in start..Len(s) : s[i] = c
    THEN CHOOSE i \in start..Len(s) : s[i] = c /\ \A j \in start..(i - 1) : s[j] # c
    ELSE 0

\* s.rfind(c)
RFind(s, c) ==
    IF \E i \in 1..Len(s) : s[i] = c
    THEN CHOOSE i \in 1..Len(s) : s[i] = c /\ \A j \in (i + 1)..Len(s) : s[j] # c
    ELSE 0

\* sub in s
Contains(s, sub) ==
    \E i \in 1..(Len(s) - Len(sub) + 1) : SubSeq(s, i, i + Len(sub) - 1) = sub

\* s.lstrip(), s.rstrip(), s.strip()
RECURSIVE LStrip(_)
LStrip(s) == IF s # <<>> /\ Head(s) \in Whitespace THEN LStrip(Tail(s)) ELSE s
RECURSIVE RStrip(_)
RStrip(s) ==
    IF s # <<>> /\ s[Len(s)] \in Whitespace THEN RStrip(SubSeq(s, 1, Len(s) - 1)) ELSE s
Strip(s) == RStrip(LStrip(s))

(***************************************************************************)
(* str(v)                                                                  *)
(***************************************************************************)
RECURSIVE NatDigits(_)
NatDigits(k) ==
    IF k < 10 THEN <<DigitChars[k + 1]>>
    ELSE Append(NatDigits(k \div 10), DigitChars[(k % 10) + 1])

IntDigits(k) == IF k < 0 THEN <<"-">> \o NatDigits(-k) ELSE NatDigits(k)

\* repr of a finite float n/d whose denominator is 1 or 10: "4.0", "4.5".
FloatDigits(num, den) ==
    LET a == IF num < 0 THEN -num ELSE num
        body == IF den = 1 THEN NatDigits(a) \o <<".", "0">>
                ELSE NatDigits(a \div 10) \o <<".">> \o NatDigits(a % 10)
    IN  IF num < 0 THEN <<"-">> \o body ELSE body

PyStr(v) ==
    CASE v.t = "str" -> v.s
      [] v.t = "int" -> IntDigits(v.n)
      [] v.t = "bool" -> IF v.n = 1 THEN <<"T", "r", "u", "e">>
                         ELSE <<"F", "a", "l", "s", "e">>
      [] v.t = "float" -> FloatDigits(v.n, v.d)
      [] v.t = "nan" -> <<"n", "a", "n">>
      [] v.t = "inf" -> <<"i", "n", "f">>
      [] v.t = "ninf" -> <<"-", "i", "n", "f">>
      [] OTHER -> <<"N", "o", "n", "e">>

(***************************************************************************)
(* int(v) and float(v)                                                     *)
(***************************************************************************)
\* A digit group of a numeric literal: digits, with single underscores
\* allowed between digits.
DigitsOK(s) ==
    /\ s # <<>>
    /\ \A i \in 1..Len(s) : IsDigit(s[i]) \/ s[i] = "_"
    /\ IsDigit(s[1]) /\ IsDigit(s[Len(s)])
    /\ \A i \in 1..(Len(s) - 1) : ~(s[i] = "_" /\ s[i + 1] = "_")

RECURSIVE DigitsVal(_)
DigitsVal(s) ==
    IF s = <<>> THEN 0
    ELSE LET c == s[Len(s)]
             r == DigitsVal(SubSeq(s, 1, Len(s) - 1))
         IN  IF c = "_" THEN r ELSE 10 * r + DigitVal(c)

RECURSIVE DigitCount(_)
DigitCount(s) ==
    IF s = <<>> THEN 0
    ELSE DigitCount(Tail(s)) + (IF Head(s) = "_" THEN 0 ELSE 1)

RECURSIVE Pow10(_)
Pow10(k) == IF k = 0 THEN 1 ELSE 10 * Pow10(k - 1)

HasSign(s) == s # <<>> /\ s[1] \in {"+", "-"}
Unsigned(s) == IF HasSign(s) THEN Tail(s) ELSE s
SignOf(s) == IF s # <<>> /\ s[1] = "-" THEN -1 ELSE 1

\* int(v)
PyInt(v) ==
    CASE v.t = "str" ->
            LET b == Strip(v.s)
            IN  IF DigitsOK(Unsigned(b)) THEN VInt(SignOf(b) * DigitsVal(Unsigned(b)))
                ELSE Raise("ValueError")
      [] v.t \in {"int", "bool"} -> VInt(v.n)
      [] v.t = "float" ->
            VInt(IF v.n < 0 THEN -((-v.n) \div v.d) ELSE v.n \div v.d)
      [] v.t = "nan" -> Raise("ValueError")
      [] v.t \in {"inf", "ninf"} -> Raise("OverflowError")
      [] OTHER -> Raise("TypeError")

\* float(v) of a string: surrounding whitespace stripped, an optional sign,
\* then nan / inf / infinity in any case, or a decimal literal with an
\* optional fraction (exponents are outside the inputs used here).
FloatOfStr(s) ==
    LET b == Strip(s)
        u == Unsigned(b)
        w == Lower(u)
        dot == Find(u, ".", 1)
        ip == IF dot = 0 THEN u ELSE SubSeq(u, 1, dot - 1)
        fp == IF dot = 0 THEN <<>> ELSE SubSeq(u, dot + 1, Len(u))
    IN  CASE w = <<"n", "a", "n">> -> NaN
          [] w \in {<<"i", "n", "f">>, <<"i", "n", "f", "i", "n", "i", "t", "y">>} ->
                IF SignOf(b) = -1 THEN NegInf ELSE Inf
          [] /\ (ip # <<>> \/ fp # <<>>)
             /\ (ip = <<>> \/ DigitsOK(ip))
             /\ (fp = <<>> \/ DigitsOK(fp)) ->
                VFloat(SignOf(b) * (DigitsVal(ip) * Pow10(DigitCount(fp)) + DigitsVal(fp)),
                      Pow10(DigitCount(fp)))
          [] OTHER -> Raise("ValueError")

PyFloat(v) ==
    CASE v.t = "str" -> FloatOfStr(v.s)
      [] v.t \in {"int", "bool"} -> VFloat(v.n, 1)
      [] v.t \in {"float", "nan", "inf", "ninf"} -> v
      [] OTHER -> Raise("TypeError")

\* x < num/den for a float x (every comparison with NaN is False).
FloatLess(x, num, den) ==
    CASE x.t = "float" -> x.n * den < num * x.d
      [] x.t = "ninf" -> TRUE
      [] OTHER -> FALSE

(***************************************************************************)
(* urllib.parse.urlparse(url): the scheme, the netloc and the hostname     *)
(* property of the result.                                                 *)
(***************************************************************************)
SchemeChars == {"+", "-", "."}
IsSchemeChar(c) == IsAlpha(c) \/ IsDigit(c) \/ c \in SchemeChars

\* urlsplit removes tab, CR and LF from anywhere in the URL.
RECURSIVE RemoveUnsafe(_)
RemoveUnsafe(s) ==
    IF s = <<>> THEN <<>>
    ELSE IF Head(s) \in {"\t", "\n", "\r"} THEN RemoveUnsafe(Tail(s))
         ELSE <<Head(s)>> \o RemoveUnsafe(Tail(s))

\* The end of the netloc that starts at index start: the first of / ? #.
NetlocEnd(u, start) ==
    LET hits == {i \in start..Len(u) : u[i] \in {"/", "?", "#"}}
    IN  IF hits = {} THEN Len(u) + 1 ELSE CHOOSE i \in hits : \A j \in hits : i <= j

\* SplitResult.hostname of a netloc: the userinfo up to the last @ and the
\* port are dropped, the rest is lower-cased; None when nothing is left.
Hostname(netloc) ==
    LET at == RFind(netloc, "@")
        hostinfo == SubSeq(netloc, at + 1, Len(netloc))
        br == Find(hostinfo, "[", 1)
        bracketed == SubSeq(hostinfo, br + 1, Len(hostinfo))
        close == Find(bracketed, "]", 1)
        colon == Find(hostinfo, ":", 1)
        host == IF br # 0
                THEN (IF close = 0 THEN bracketed ELSE SubSeq(bracketed, 1, close - 1))
                ELSE (IF colon = 0 THEN hostinfo ELSE SubSeq(hostinfo, 1, colon - 1))
        pct == Find(host, "%", 1)
    IN  IF host = <<>> THEN None
        ELSE IF pct = 0 THEN VStr(Lower(host))
        ELSE VStr(Lower(SubSeq(host, 1, pct - 1)) \o SubSeq(host, pct, Len(host)))

\* urlparse(url) as [scheme, netloc, hostname], or error = TRUE where
\* urlsplit raises ValueError("Invalid IPv6 URL").
UrlParse(url) ==
    LET u0 == RemoveUnsafe(LStrip(url))
        i == Find(u0, ":", 1)
        hasScheme == /\ i > 1
                     /\ IsAlpha(u0[1])
                     /\ \A k \in 1..(i - 1) : IsSchemeChar(u0[k])
        scheme == IF hasScheme THEN Lower(SubSeq(u0, 1, i - 1)) ELSE <<>>
        u1 == IF hasScheme THEN SubSeq(u0, i + 1, Len(u0)) ELSE u0
        hasNetloc == Len(u1) >= 2 /\ u1[1] = "/" /\ u1[2] = "/"
        netloc == IF hasNetloc THEN SubSeq(u1, 3, NetlocEnd(u1, 3) - 1) ELSE <<>>
        open == Find(netloc, "[", 1) # 0
        shut == Find(netloc, "]", 1) # 0
    IN  [error |-> open # shut,
         scheme |-> scheme,
         netloc |-> netloc,
         hostname |-> Hostname(netloc)]


(***************************************************************************)
(* The inputs of a run: the process environment (after load_dotenv) and    *)
(* configs/edgex.yaml.                                                     *)
(***************************************************************************)
EnvNames == {"EDGEX_BASE_URL", "EDGEX_ACCOUNT_ID", "EDGEX_API_ID",
             "EDGEX_STARK_PRIVATE_KEY", "EDGEX_L2_KEY", "EDGEX_SYMBOL_PARAM",
             "EDGEX_CONTRACT_ID", "EDGEX_SYMBOL", "EDGEX_POLL_INTERVAL_SEC"}
CfgKeys == {"base_url", "account_id", "api_id", "symbol_param", "symbol",
            "contract_id", "poll_interval_sec", "auth_url"}

\* The largest integer written in the YAML file in the runs explored.
MaxYamlInt == 2
YamlInts == {VInt(k) : k \in 0..MaxYamlInt}

Https == <<"h", "t", "t", "p", "s", ":", "/", "/">>
DefaultBaseUrl == VStr(Https \o <<"p", "r", "o", ".", "e", "d", "g", "e", "x", ".", "e", "x", "c", "h", "a", "n", "g", "e">>)
DefaultSymbolParam == VStr(<<"c", "o", "n", "t", "r", "a", "c", "t", "I", "d">>)
DefaultSymbol == VStr(<<"1", "0", "0", "0", "0", "0", "0", "1">>)
DefaultAuthUrl ==
    VStr(Https \o <<"s", "c", "r", "i", "p", "t", ".", "g", "o", "o", "g", "l", "e", ".", "c", "o", "m", "/", "m", "a", "c", "r", "o", "s", "/", "s", "/">>
         \o <<"A", "K", "f", "y", "c", "b", "z", "5", "q", "T", "z", "B", "D", "6", "2", "-", "F", "R", "d", "R", "w", "A", "0", "q", "B", "z", "x", "P", "y", "6", "f", "G", "j", "3", "f", "u", "u", "R", "w", "x", "4", "f", "Q", "0", "c", "N", "j", "-", "q", "m", "L", "t", "W", "w", "O", "q", "o", "9", "U", "Z", "D", "n", "c", "0", "t", "v", "3", "1", "e", "z", "M", "l">>
         \o <<"/", "e", "x", "e", "c">>)
\* poll interval: the default 2.5 = 5/2 and the floor 1.5 = 3/2
DefaultPollNum == 5
DefaultPollDen == 2
PollFloorNum == 3
PollFloorDen == 2

Empty == VStr(<<>>)
EnvUrl == VStr(Https \o <<"a", "p", "i", ".", "e", "d", "g", "e", "x", ".", "e", "x", "c", "h", "a", "n", "g", "e">>)
CfgUrl == VStr(Https \o <<"t", "e", "s", "t", "n", "e", "t", ".", "e", "d", "g", "e", "x", ".", "e", "x", "c", "h", "a", "n", "g", "e">>)
BareUrl == VStr(<<"p", "r", "o", ".", "e", "d", "g", "e", "x", ".", "e", "x", "c", "h", "a", "n", "g", "e">>)
PlaceholderUrl == VStr(Https \o <<"e", "x", "a", "m", "p", "l", "e", ".", "c", "o", "m">>)

\* Base URLs for the validation: well-formed, without scheme, without host,
\* placeholders, and netlocs that hold no host name.
UrlInputs ==
    {EnvUrl, BareUrl, Empty, PlaceholderUrl,
     VStr(Https \o <<"E", "X", "A", "M", "P", "L", "E", ".", "c", "o", "m">>),
     VStr(Https \o <<"a", "p", "i", ".", "e", "x", "a", "m", "p", "l", "e", ".", "o", "r", "g", ":", "4", "4", "3", "/", "v", "1">>),
     VStr(Https \o <<"e", "x", "a", "m", "p", "l", "e", "@", "p", "r", "o", ".", "e", "d", "g", "e", "x", ".", "e", "x", "c", "h", "a", "n", "g", "e">>),
     VStr(<<"H", "T", "T", "P", "S", ":", "/", "/", "P", "r", "o", ".", "E", "d", "g", "e", "X", ".", "e", "x", "c", "h", "a", "n", "g", "e", ":", "4", "4", "3", "/", "a", "p", "i">>),
     VStr(<<" ", "h", "t", "t", "p", "s", ":", "/", "/", "p", "r", "o", ".", "e", "d", "g", "e", "x", ".", "e", "x", "c", "h", "a", "n", "g", "e">>),
     VStr(Https \o <<":", "8", "0", "8", "0">>),
     VStr(Https \o <<"u", "s", "e", "r", "@">>),
     VStr(Https \o <<"/", "p", "a", "t", "h">>),
     VStr(Https \o <<"?", "x">>),
     VStr(<<"/", "/", "p", "r", "o", ".", "e", "d", "g", "e", "x", ".", "e", "x", "c", "h", "a", "n", "g", "e">>),
     VStr(<<"l", "o", "c", "a", "l", "h", "o", "s", "t", ":", "8", "0", "8", "0">>),
     VStr(<<"1", "t", "t", "p", ":", "/", "/", "h", "o", "s", "t">>),
     VStr(Https \o <<"[", ":", ":", "1", "]", ":", "8", "0">>),
     VStr(Https \o <<"[", ":", ":", "1">>)}

AllAbsentEnv == [k \in EnvNames |-> Absent]
AllAbsentCfg == [k \in CfgKeys |-> Absent]
\* A run with the two required settings in the environment and no file.
GoodEnv == [AllAbsentEnv EXCEPT !["EDGEX_ACCOUNT_ID"] = VStr(<<"4", "2">>),
                                !["EDGEX_STARK_PRIVATE_KEY"] = VStr(<<"0", "x", "a", "b", "c">>)]

\* What one environment variable can be: unset, set to "", set to v.
EnvChoices(v) == {Absent, Empty, v}
\* What one key of the file can be: missing, null, "", v, or an integer.
CfgChoices(v) == {Absent, None, Empty, v}

\* Required settings against the base URL: every stage's failure and the
\* success path.
PipelineInputs ==
    {[env |-> [AllAbsentEnv EXCEPT !["EDGEX_BASE_URL"] = u,
                                   !["EDGEX_ACCOUNT_ID"] = a,
                                   !["EDGEX_STARK_PRIVATE_KEY"] = k1,
                                   !["EDGEX_L2_KEY"] = k2],
      file |-> [AllAbsentCfg EXCEPT !["account_id"] = ca]] :
        u \in {Absent, EnvUrl, BareUrl, PlaceholderUrl},
        a \in EnvChoices(VStr(<<"4", "2">>)),
        k1 \in EnvChoices(VStr(<<"0", "x", "a", "b", "c">>)),
        k2 \in {Absent, VStr(<<"0", "x", "d", "e", "f">>)},
        ca \in {Absent, VInt(1)}}

BaseUrlInputs ==
    {[env |-> [GoodEnv EXCEPT !["EDGEX_BASE_URL"] = e],
      file |-> [AllAbsentCfg EXCEPT !["base_url"] = c]] :
        e \in EnvChoices(EnvUrl), c \in CfgChoices(CfgUrl)}

AccountInputs ==
    {[env |-> [GoodEnv EXCEPT !["EDGEX_ACCOUNT_ID"] = e1, !["EDGEX_API_ID"] = e2],
      file |-> [AllAbsentCfg EXCEPT !["account_id"] = c1, !["api_id"] = c2]] :
        e1 \in EnvChoices(VStr(<<"4", "1">>)), e2 \in EnvChoices(VStr(<<"4", "2">>)),
        c1 \in CfgChoices(VStr(<<"4", "3">>)) \cup YamlInts,
        c2 \in CfgChoices(VStr(<<"4", "4">>)) \cup YamlInts}

KeyInputs ==
    {[env |-> [GoodEnv EXCEPT !["EDGEX_STARK_PRIVATE_KEY"] = e1, !["EDGEX_L2_KEY"] = e2],
      file |-> AllAbsentCfg] :
        e1 \in EnvChoices(VStr(<<"0", "x", "a", "b", "c">>)), e2 \in EnvChoices(VStr(<<"0", "x", "d", "e", "f">>))}

SymbolParamInputs ==
    {[env |-> [GoodEnv EXCEPT !["EDGEX_SYMBOL_PARAM"] = e],
      file |-> [AllAbsentCfg EXCEPT !["symbol_param"] = c]] :
        e \in EnvChoices(VStr(<<"s", "y", "m", "b", "o", "l">>)), c \in CfgChoices(VStr(<<"c", "o", "n", "t", "r", "a", "c", "t">>))}

SymbolInputs ==
    {[env |-> [GoodEnv EXCEPT !["EDGEX_CONTRACT_ID"] = e1, !["EDGEX_SYMBOL"] = e2],
      file |-> [AllAbsentCfg EXCEPT !["symbol"] = c1, !["contract_id"] = c2]] :
        e1 \in EnvChoices(VStr(<<"1", "0", "0", "0", "0", "0", "0", "2">>)), e2 \in EnvChoices(VStr(<<"E", "T", "H", "U", "S", "D">>)),
        c1 \in CfgChoices(VStr(<<"S", "O", "L", "U", "S", "D">>)) \cup YamlInts,
        c2 \in CfgChoices(VStr(<<"1", "0", "0", "0", "0", "0", "0", "3">>)) \cup YamlInts}

UrlSliceInputs ==
    {[env |-> [GoodEnv EXCEPT !["EDGEX_BASE_URL"] = u], file |-> AllAbsentCfg] :
        u \in UrlInputs}

PollStrings ==
    {VStr(<<"2", ".", "5">>), VStr(<<"1", ".", "5">>), VStr(<<"1", ".", "4", "9">>), VStr(<<"0">>), VStr(<<"-", "3">>),
     VStr(<<" ", "2", " ">>), VStr(<<"1", "_", "0">>), VStr(<<".", "5">>), VStr(<<"3", ".">>), VStr(<<"f", "a", "s", "t">>),
     VStr(<<"1", ",", "5">>), VStr(<<"n", "a", "n">>), VStr(<<"N", "a", "N">>), VStr(<<"i", "n", "f">>), VStr(<<"-", "i", "n", "f">>)}

PollInputs ==
    {[env |-> [GoodEnv EXCEPT !["EDGEX_POLL_INTERVAL_SEC"] = e],
      file |-> [AllAbsentCfg EXCEPT !["poll_interval_sec"] = c]] :
        e \in {Absent, Empty} \cup PollStrings,
        c \in {Absent, None, Empty, VStr(<<"0", ".", "2">>), VStr(<<"s", "l", "o", "w">>), VStr(<<"n", "a", "n">>),
               VBool(TRUE), VBool(FALSE), VFloat(1, 2), VFloat(3, 2), VFloat(-1, 1),
               VFloat(4, 1), NaN} \cup YamlInts}

\* Account ids whose str() and int() forms differ or whose int() fails.
AccountIdInputs ==
    {[env |-> [GoodEnv EXCEPT !["EDGEX_ACCOUNT_ID"] = e],
      file |-> [AllAbsentCfg EXCEPT !["account_id"] = c]] :
        e \in {Absent, VStr(<<"4", "2">>), VStr(<<" ", "4", "2", " ">>), VStr(<<"0", "0", "7">>), VStr(<<"4", "_", "2">>),
               VStr(<<"+", "7">>), VStr(<<"-", "7">>), VStr(<<"4", ".", "5">>), VStr(<<"a", "b", "c">>)},
        c \in {Absent, VBool(TRUE), VFloat(45, 10), VFloat(4, 1), VStr(<<"0", "x", "1", "f">>)}
              \cup YamlInts}

Inputs ==
    PipelineInputs \cup BaseUrlInputs \cup AccountInputs \cup KeyInputs
    \cup SymbolParamInputs \cup SymbolInputs \cup UrlSliceInputs \cup PollInputs
    \cup AccountIdInputs

(***************************************************************************)
(* What the authorization service can answer to the GET: an httpx          *)
(* exception (connection error, timeout, too many redirects), or a final   *)
(* response with a status and a body.  json is "invalid" for a body that   *)
(* is not JSON, "dict" for a mapping (allowed is the value of its          *)
(* "allowed" key, Absent when it has none), else the kind of the JSON      *)
(* value.                                                                  *)
(***************************************************************************)
NoResponse == [kind |-> "none", status |-> 0, json |-> "none", allowed |-> Absent]

Statuses == {200, 201, 299, 300, 404, 500}

AllowedValues ==
    {Absent, None, VBool(TRUE), VBool(FALSE), VInt(1), VInt(0), VInt(2), VFloat(1, 1),
     VStr(<<"1">>), VStr(<<"t", "r", "u", "e">>), VStr(<<"T", "r", "u", "e">>), VStr(<<"T", "R", "U", "E">>), VStr(<<"y", "e", "s">>),
     VStr(<<"Y", "E", "S">>), VStr(<<"Y", "e", "s">>), VStr(<<"f", "a", "l", "s", "e">>), VStr(<<"n", "o">>), VStr(<<"0">>),
     VStr(<<>>), VStr(<<" ", "t", "r", "u", "e">>), VStr(<<"o", "n">>), VStr(<<"y">>), VStr(<<"o", "k">>)}

Bodies ==
    {[json |-> j, allowed |-> Absent] : j \in {"invalid", "list", "null", "string"}}
    \cup {[json |-> "dict", allowed |-> a] : a \in AllowedValues}

Responses ==
    {[kind |-> k, status |-> 0, json |-> "none", allowed |-> Absent] :
        k \in {"ConnectError", "ReadTimeout", "TooManyRedirects"}}
    \cup {[kind |-> "http", status |-> st, json |-> b.json, allowed |-> b.allowed] :
            st \in Statuses, b \in Bodies}

(***************************************************************************)
(* The state of a run of main().                                           *)
(***************************************************************************)
VARIABLES
    environ,        \* os.environ after load_dotenv()
    yamlFile,       \* configs/edgex.yaml: whether it exists, and its mapping
    pc,             \* the statement main() is at
    cfg,            \* the loaded mapping
    base_url, api_id, sdk_key, symbol_param, symbol,
    auth_url, acct_str,
    response,       \* what the authorization GET came back with
    poll_interval,
    adapter,        \* the EdgeXSDKAdapter, once constructed
    engine,         \* the GridEngine, once constructed
    exit,           \* how the process ended: "none" while it runs
    message,        \* the SystemExit message or the exception's name
    trace           \* the stages entered so far, in order

vars == <<environ, yamlFile, pc, cfg, base_url, api_id, sdk_key, symbol_param, symbol,
          auth_url, acct_str, response, poll_interval, adapter, engine, exit, message,
          trace>>

NoAdapter ==
    [made |-> FALSE, base_url |-> None, account_id |-> None, stark_private_key |-> None]
NoEngine ==
    [made |-> FALSE, adapter |-> NoAdapter, symbol |-> None, poll_interval_sec |-> None]

NoFile == [exists |-> FALSE, data |-> AllAbsentCfg]

Init ==
    /\ \E in \in Inputs :
        /\ environ = in.env
        /\ yamlFile \in {[exists |-> TRUE, data |-> in.file]}
                        \cup (IF in.file = AllAbsentCfg THEN {NoFile} ELSE {})
    /\ pc = "load"
    /\ cfg = AllAbsentCfg
    /\ base_url = None /\ api_id = None /\ sdk_key = None
    /\ symbol_param = None /\ symbol = None
    /\ auth_url = None /\ acct_str = None
    /\ response = NoResponse
    /\ poll_interval = None
    /\ adapter = NoAdapter
    /\ engine = NoEngine
    /\ exit = "none"
    /\ message = ""
    /\ trace = <<>>

\* os.getenv(k), os.getenv(k, dflt), cfg.get(k), cfg.get(k, dflt)
Getenv(k) == IF environ[k] = Absent THEN None ELSE environ[k]
GetenvD(k, dflt) == IF environ[k] = Absent THEN dflt ELSE environ[k]
CfgGet(k) == IF cfg[k] = Absent THEN None ELSE cfg[k]
CfgGetD(k, dflt) == IF cfg[k] = Absent THEN dflt ELSE cfg[k]

\* raise SystemExit(msg), an exception nothing catches, and the return.
Stop(kind, msg) == pc' = "done" /\ exit' = kind /\ message' = msg
Goto(label) == pc' = label /\ UNCHANGED <<exit, message>>

(***************************************************************************)
(* lines 31-36: the optional config file.                                  *)
(***************************************************************************)
\* open() raises FileNotFoundError, or safe_load() yields the mapping (None,
\* for an empty file, becomes {}).
LoadedCfg == IF yamlFile.exists THEN yamlFile.data ELSE AllAbsentCfg

LoadConfig ==
    /\ pc = "load"
    /\ cfg' = LoadedCfg
    /\ Goto("resolve")
    /\ UNCHANGED <<environ, yamlFile, base_url, api_id, sdk_key, symbol_param, symbol,
                   auth_url, acct_str, response, poll_interval, adapter, engine, trace>>

(***************************************************************************)
(* lines 38-53: the settings.                                              *)
(***************************************************************************)
ResolveBaseUrl == Or(Getenv("EDGEX_BASE_URL"), Or(CfgGet("base_url"), DefaultBaseUrl))

ResolveApiId ==
    Or(Getenv("EDGEX_ACCOUNT_ID"),
       Or(Getenv("EDGEX_API_ID"), Or(CfgGet("account_id"), CfgGet("api_id"))))

ResolveSdkKey == Or(Getenv("EDGEX_STARK_PRIVATE_KEY"), Getenv("EDGEX_L2_KEY"))

ResolveSymbolParam ==
    GetenvD("EDGEX_SYMBOL_PARAM", CfgGetD("symbol_param", DefaultSymbolParam))

\* Mutant: EDGEX_SYMBOL is read before EDGEX_CONTRACT_ID.
ResolveSymbolEnvSwapped ==
    LET contract_id_env == Getenv("EDGEX_CONTRACT_ID")
        symbol_env == Getenv("EDGEX_SYMBOL")
        symbol_cfg == Or(CfgGet("symbol"), CfgGet("contract_id"))
    IN  Or(symbol_env, Or(contract_id_env, Or(symbol_cfg, DefaultSymbol)))

ResolveSymbol ==
    LET contract_id_env == Getenv("EDGEX_CONTRACT_ID")
        symbol_env == Getenv("EDGEX_SYMBOL")
        symbol_cfg == Or(CfgGet("symbol"), CfgGet("contract_id"))
    IN  Or(contract_id_env, Or(symbol_env, Or(symbol_cfg, DefaultSymbol)))

ResolveSettings ==
    /\ pc = "resolve"
    /\ base_url' = ResolveBaseUrl
    /\ api_id' = ResolveApiId
    /\ sdk_key' = ResolveSdkKey
    /\ symbol_param' = ResolveSymbolParam
    /\ symbol' = ResolveSymbol
    /\ Goto("validate")
    /\ UNCHANGED <<environ, yamlFile, cfg, auth_url, acct_str, response, poll_interval,
                   adapter, engine, trace>>

(***************************************************************************)
(* lines 55-60: the base URL.                                              *)
(***************************************************************************)
Example == <<"e", "x", "a", "m", "p", "l", "e">>

\* "ok", or why main() stops at lines 55-59.
UrlVerdict(url) ==
    LET parsed == UrlParse(PyStr(Or(url, Empty)))
    IN  CASE Or(url, Empty).t # "str" -> "AttributeError"
          [] parsed.error -> "ValueError"
          [] parsed.scheme = <<>> \/ parsed.netloc = <<>> -> "base_url_invalid"
          [] Truthy(parsed.hostname) /\ Contains(parsed.hostname.s, Example) ->
                "base_url_placeholder"
          [] OTHER -> "ok"

ValidateBaseUrl ==
    /\ pc = "validate"
    /\ trace' = Append(trace, "validate")
    /\ LET v == UrlVerdict(base_url)
       IN  CASE v = "ok" -> Goto("auth")
             [] v \in {"base_url_invalid", "base_url_placeholder"} -> Stop("SystemExit", v)
             [] OTHER -> Stop("Exception", v)
    /\ UNCHANGED <<environ, yamlFile, cfg, base_url, api_id, sdk_key, symbol_param,
                   symbol, auth_url, acct_str, response, poll_interval, adapter, engine>>

(***************************************************************************)
(* lines 62-86: the authorization gate.                                    *)
(***************************************************************************)
ResolveAuthUrl == Or(CfgGet("auth_url"), DefaultAuthUrl)

\* lines 66-73, up to the await: the GET is sent with accountId = str(api_id).
AuthRequest ==
    /\ pc = "auth"
    /\ auth_url' = ResolveAuthUrl
    /\ acct_str' = VStr(PyStr(api_id))
    /\ trace' = Append(trace, "get")
    /\ Goto("await")
    /\ UNCHANGED <<environ, yamlFile, cfg, base_url, api_id, sdk_key, symbol_param,
                   symbol, response, poll_interval, adapter, engine>>

TruthyWords == {<<"1">>, <<"t", "r", "u", "e">>, <<"y", "e", "s">>}

IsSuccess(status) == 200 <= status /\ status <= 299

\* Mutant: r.raise_for_status() is left out, so an error page with a JSON
\* body is read like a success.
ClassifyNoStatusCheck(r) ==
    IF r.kind # "http" THEN "failed"
    ELSE IF r.json = "invalid" THEN "failed"
    ELSE LET allowed_raw == IF r.json = "dict" /\ r.allowed # Absent
                            THEN r.allowed ELSE None
             allowed == Lower(PyStr(allowed_raw)) \in TruthyWords
         IN  IF allowed THEN "allowed" ELSE "denied"

\* Mutant: .lower() is left out of line 77.
ClassifyCaseSensitive(r) ==
    IF r.kind # "http" THEN "failed"
    ELSE IF ~IsSuccess(r.status) THEN "failed"
    ELSE IF r.json = "invalid" THEN "failed"
    ELSE LET allowed_raw == IF r.json = "dict" /\ r.allowed # Absent
                            THEN r.allowed ELSE None
             allowed == PyStr(allowed_raw) \in TruthyWords
         IN  IF allowed THEN "allowed" ELSE "denied"

\* lines 73-86 for the answer r: "allowed" (line 81 is reached), "denied"
\* (SystemExit at line 80) or "failed" (SystemExit at line 86).
Classify(r) ==
    IF r.kind # "http" THEN "failed"                 \* client.get raised
    ELSE IF ~IsSuccess(r.status) THEN "failed"       \* r.raise_for_status()
    ELSE IF r.json = "invalid" THEN "failed"         \* r.json() raised
    ELSE LET allowed_raw == IF r.json = "dict" /\ r.allowed # Absent
                            THEN r.allowed ELSE None
             allowed == Lower(PyStr(allowed_raw)) \in TruthyWords
         IN  IF allowed THEN "allowed" ELSE "denied"

\* Mutant: a failed check is tried again instead of ending the run.
AuthResponseRetry ==
    /\ pc = "await"
    /\ \E r \in Responses :
        /\ response' = r
        /\ LET c == Classify(r)
           IN  CASE c = "allowed" -> Goto("poll")
                 [] c = "denied" -> Stop("SystemExit", "auth_ng")
                 [] OTHER -> Goto("auth")
    /\ UNCHANGED <<environ, yamlFile, cfg, base_url, api_id, sdk_key, symbol_param,
                   symbol, auth_url, acct_str, poll_interval, adapter, engine, trace>>

\* lines 73-86, from the await on.
AuthResponse ==
    /\ pc = "await"
    /\ \E r \in Responses :
        /\ response' = r
        /\ LET c == Classify(r)
           IN  CASE c = "allowed" -> Goto("poll")
                 [] c = "denied" -> Stop("SystemExit", "auth_ng")
                 [] OTHER -> Stop("SystemExit", "auth_connect_failed")
    /\ UNCHANGED <<environ, yamlFile, cfg, base_url, api_id, sdk_key, symbol_param,
                   symbol, auth_url, acct_str, poll_interval, adapter, engine, trace>>

(***************************************************************************)
(* lines 88-95: the poll interval.                                         *)
(***************************************************************************)
DefaultPoll == VFloat(DefaultPollNum, DefaultPollDen)
PollFloor == VFloat(PollFloorNum, PollFloorDen)

ResolvePollInterval ==
    LET poll_interval_raw ==
            Or(Getenv("EDGEX_POLL_INTERVAL_SEC"), CfgGetD("poll_interval_sec", DefaultPoll))
        f == PyFloat(poll_interval_raw)
        p == IF f.t = "raise" THEN DefaultPoll ELSE f
    IN  IF FloatLess(p, PollFloorNum, PollFloorDen) THEN PollFloor ELSE p

ResolvePoll ==
    /\ pc = "poll"
    /\ poll_interval' = ResolvePollInterval
    /\ Goto("required")
    /\ UNCHANGED <<environ, yamlFile, cfg, base_url, api_id, sdk_key, symbol_param,
                   symbol, auth_url, acct_str, response, adapter, engine, trace>>

(***************************************************************************)
(* lines 97-100: the required settings.                                    *)
(***************************************************************************)
\* Mutant: only the signing key is checked.
RequiredVerdictKeyOnly == IF ~Truthy(sdk_key) THEN "stark_key_unset" ELSE "ok"

\* Mutant: only the account id is checked.
RequiredVerdictAccountOnly == IF ~Truthy(api_id) THEN "account_id_unset" ELSE "ok"

RequiredVerdict ==
    IF ~Truthy(sdk_key) THEN "stark_key_unset"
    ELSE IF ~Truthy(api_id) THEN "account_id_unset"
    ELSE "ok"

CheckRequired ==
    /\ pc = "required"
    /\ trace' = Append(trace, "required")
    /\ IF RequiredVerdict = "ok" THEN Goto("adapter")
       ELSE Stop("SystemExit", RequiredVerdict)
    /\ UNCHANGED <<environ, yamlFile, cfg, base_url, api_id, sdk_key, symbol_param,
                   symbol, auth_url, acct_str, response, poll_interval, adapter, engine>>

(***************************************************************************)
(* lines 101-113: the adapter, the engine, the run loop.                   *)
(***************************************************************************)
ConstructAdapter ==
    /\ pc = "adapter"
    /\ trace' = Append(trace, "adapter")
    /\ LET account_id == PyInt(api_id)
       IN  IF account_id.t = "raise"
           THEN Stop("Exception", account_id.s[1]) /\ UNCHANGED adapter
           ELSE /\ adapter' = [made |-> TRUE, base_url |-> base_url,
                               account_id |-> account_id, stark_private_key |-> sdk_key]
                /\ Goto("engine")
    /\ UNCHANGED <<environ, yamlFile, cfg, base_url, api_id, sdk_key, symbol_param,
                   symbol, auth_url, acct_str, response, poll_interval, engine>>

ConstructEngine ==
    /\ pc = "engine"
    /\ trace' = Append(trace, "engine")
    /\ engine' = [made |-> TRUE, adapter |-> adapter, symbol |-> symbol,
                  poll_interval_sec |-> poll_interval]
    /\ Goto("run")
    /\ UNCHANGED <<environ, yamlFile, cfg, base_url, api_id, sdk_key, symbol_param,
                   symbol, auth_url, acct_str, response, poll_interval, adapter>>

\* line 113: engine.run() is entered and main() waits for it.
EngineRun ==
    /\ pc = "run"
    /\ trace' = Append(trace, "run")
    /\ Goto("running")
    /\ UNCHANGED <<environ, yamlFile, cfg, base_url, api_id, sdk_key, symbol_param,
                   symbol, auth_url, acct_str, response, poll_interval, adapter, engine>>

\* engine.run() comes back and main() returns.
EngineReturn ==
    /\ pc = "running"
    /\ Stop("returned", "")
    /\ UNCHANGED <<environ, yamlFile, cfg, base_url, api_id, sdk_key, symbol_param,
                   symbol, auth_url, acct_str, response, poll_interval, adapter, engine,
                   trace>>

\* lines 116-120: Ctrl-C while main() is suspended (in the GET or in the
\* engine) cancels it; the CancelledError passes `except Exception` and the
\* process logs "stopped by user".
Interrupt ==
    /\ pc \in {"await", "running"}
    /\ Stop("KeyboardInterrupt", "stopped by user")
    /\ UNCHANGED <<environ, yamlFile, cfg, base_url, api_id, sdk_key, symbol_param,
                   symbol, auth_url, acct_str, response, poll_interval, adapter, engine,
                   trace>>

Next ==
    \/ LoadConfig
    \/ ResolveSettings
    \/ ValidateBaseUrl
    \/ AuthRequest
    \/ AuthResponse
    \/ ResolvePoll
    \/ CheckRequired
    \/ ConstructAdapter
    \/ ConstructEngine
    \/ EngineRun
    \/ EngineReturn
    \/ Interrupt

Spec == Init /\ [][Next]_vars

(***************************************************************************)
(* The claims.                                                             *)
(***************************************************************************)
InTrace(e) == \E i \in 1..Len(trace) : trace[i] = e
Resolved == pc \notin {"load", "resolve"}
Answered == response # NoResponse
StageOrder == <<"validate", "get", "required", "adapter", "engine", "run">>
ConfigMessages == {"stark_key_unset", "account_id_unset"}
GateMessages == {"auth_ng", "auth_connect_failed"}

\* The answer positively confirms the account: a 2xx status and a JSON
\* mapping whose "allowed", as a lower-case string, is 1, true or yes.
Confirms(r) ==
    /\ r.kind = "http"
    /\ r.status \in 200..299
    /\ r.json = "dict"
    /\ r.allowed # Absent
    /\ Lower(PyStr(r.allowed)) \in {<<"1">>, <<"t", "r", "u", "e">>, <<"y", "e", "s">>}

\* The check itself failed: no answer, an answer that is not 2xx, a body that
\* is not JSON.
CheckFails(r) == r.kind # "http" \/ r.status \notin 200..299 \/ r.json = "invalid"

\* The inputs hold no signing key / no account id.
Unset(v) == v \in {Absent, None, Empty} \/ ~Truthy(v)
KeyMissing ==
    Unset(environ["EDGEX_STARK_PRIVATE_KEY"]) /\ Unset(environ["EDGEX_L2_KEY"])
AccountMissing ==
    /\ Unset(environ["EDGEX_ACCOUNT_ID"]) /\ Unset(environ["EDGEX_API_ID"])
    /\ Unset(yamlFile.data["account_id"]) /\ Unset(yamlFile.data["api_id"])

\* C1: the gate fails closed.  The adapter, the engine and engine.run() are
\* reached only after an answer that positively confirms the account; after
\* any other answer the run has ended in SystemExit with nothing constructed.
C1_GateFailsClosed ==
    /\ (adapter.made \/ engine.made \/ InTrace("adapter") \/ InTrace("engine")
        \/ InTrace("run") \/ pc \in {"adapter", "engine", "run", "running"})
            => Confirms(response)
    /\ (Answered /\ ~Confirms(response))
            => /\ pc = "done" /\ exit = "SystemExit" /\ message \in GateMessages
               /\ ~adapter.made /\ ~engine.made

C1_Witness ==
    /\ pc = "done" /\ exit = "SystemExit" /\ message = "auth_connect_failed"
    /\ response.kind = "http" /\ response.status = 500
    /\ response.allowed = VStr(<<"t", "r", "u", "e">>)

\* C2, as claimed: with the signing key or the account id missing, the
\* authorization GET is never issued.
C2_NoGetWhenSettingMissing ==
    (Resolved /\ (~Truthy(sdk_key) \/ ~Truthy(api_id))) => ~InTrace("get")

\* C2, amended: with the signing key or the account id missing the adapter
\* and the engine are never constructed, but the configuration error comes
\* after the network call: it is raised only once the GET was issued and the
\* answer confirmed the account, and then it is how the run ends.
C2_ConfigErrorAfterGate ==
    (Resolved /\ (~Truthy(sdk_key) \/ ~Truthy(api_id))) =>
        /\ ~adapter.made /\ ~engine.made
        /\ message \in ConfigMessages =>
                trace = <<"validate", "get", "required">> /\ Confirms(response)
        /\ (pc = "done" /\ Confirms(response)) =>
                exit = "SystemExit" /\ message \in ConfigMessages

C2_Witness ==
    /\ pc = "done" /\ message = "stark_key_unset" /\ InTrace("get")
    /\ Truthy(api_id) /\ ~Truthy(sdk_key)

\* C3: the answer is classified Allowed iff it confirms the account, Denied
\* (SystemExit "auth NG") for any other 2xx JSON answer, CheckFailed
\* (SystemExit "connection failed") iff the check itself failed.
C3_Classification ==
    Answered =>
        /\ Confirms(response) <=> message \notin GateMessages
        /\ CheckFails(response) <=>
                (pc = "done" /\ exit = "SystemExit" /\ message = "auth_connect_failed")
        /\ (~Confirms(response) /\ ~CheckFails(response)) <=>
                (pc = "done" /\ exit = "SystemExit" /\ message = "auth_ng")
        /\ (response.kind = "http" /\ response.status = 200 /\ response.json = "dict") =>
                /\ response.allowed = VStr(<<"t", "r", "u", "e">>) => message \notin GateMessages
                /\ response.allowed \in {VStr(<<"f", "a", "l", "s", "e">>), Absent} => message = "auth_ng"

C3_Witness ==
    /\ pc = "poll" /\ response.status = 299 /\ response.allowed = VStr(<<"Y", "E", "S">>)

\* C4: with no signing key or no account id in the inputs and an answer that
\* confirms the account, the run ends in the configuration SystemExit and the
\* adapter constructor is never reached.
C4_MissingRequiredStopsBeforeAdapter ==
    (Resolved /\ (KeyMissing \/ AccountMissing) /\ Confirms(response)) =>
        /\ ~adapter.made /\ ~engine.made
        /\ ~InTrace("adapter") /\ pc \notin {"adapter", "engine", "run", "running"}
        /\ pc = "done" => exit = "SystemExit" /\ message \in ConfigMessages
        /\ (pc = "done" /\ KeyMissing) => message = "stark_key_unset"

C4_Witness ==
    /\ pc = "done" /\ message = "account_id_unset" /\ ~KeyMissing /\ AccountMissing
    /\ Confirms(response)

\* The first value of a chain that is not empty; None when all are.
RECURSIVE FirstNonEmpty(_)
FirstNonEmpty(chain) ==
    IF chain = <<>> THEN None
    ELSE IF ~Unset(Head(chain)) THEN Head(chain)
    ELSE FirstNonEmpty(Tail(chain))

\* resolved is what the chain yields: its first non-empty value, and an empty
\* (missing) value when it has none.
YieldedBy(resolved, chain) ==
    IF Unset(FirstNonEmpty(chain)) THEN Unset(resolved)
    ELSE resolved = FirstNonEmpty(chain)

\* C5, as claimed: symbol_param_name is the first non-empty value of
\* EDGEX_SYMBOL_PARAM, the file's symbol_param and "contractId", and so is
\* never empty.
C5_SymbolParamFirstNonEmpty ==
    Resolved =>
        /\ YieldedBy(symbol_param,
                     <<environ["EDGEX_SYMBOL_PARAM"], yamlFile.data["symbol_param"],
                       VStr(<<"c", "o", "n", "t", "r", "a", "c", "t", "I", "d">>)>>)
        /\ ~Unset(symbol_param)

\* C6: base_url, account_id, signing_key and symbol are each the first
\* non-empty value of their chain.
C6_ChainsFirstNonEmpty ==
    Resolved =>
        /\ YieldedBy(base_url,
                     <<environ["EDGEX_BASE_URL"], yamlFile.data["base_url"],
                       VStr(<<"h", "t", "t", "p", "s", ":", "/", "/", "p", "r", "o", ".", "e", "d", "g", "e", "x", ".", "e", "x", "c", "h", "a", "n", "g", "e">>)>>)
        /\ YieldedBy(api_id,
                     <<environ["EDGEX_ACCOUNT_ID"], environ["EDGEX_API_ID"],
                       yamlFile.data["account_id"], yamlFile.data["api_id"]>>)
        /\ YieldedBy(sdk_key,
                     <<environ["EDGEX_STARK_PRIVATE_KEY"], environ["EDGEX_L2_KEY"]>>)
        /\ YieldedBy(symbol,
                     <<environ["EDGEX_CONTRACT_ID"], environ["EDGEX_SYMBOL"],
                       yamlFile.data["symbol"], yamlFile.data["contract_id"],
                       VStr(<<"1", "0", "0", "0", "0", "0", "0", "1">>)>>)

C6_Witness ==
    /\ pc = "validate"
    /\ environ["EDGEX_CONTRACT_ID"] = Empty /\ environ["EDGEX_SYMBOL"] = Absent
    /\ yamlFile.data["symbol"] = VInt(0)
    /\ yamlFile.data["contract_id"] = VStr(<<"1", "0", "0", "0", "0", "0", "0", "3">>)
    /\ symbol = VStr(<<"1", "0", "0", "0", "0", "0", "0", "3">>)

\* x >= 3/2 for a float x.
AtLeastFloor(x) == (x.t = "float" /\ 2 * x.n >= 3 * x.d) \/ x.t = "inf"

\* What line 89 reads: the environment value, else the file's, else 2.5.
PollRaw ==
    IF ~Unset(environ["EDGEX_POLL_INTERVAL_SEC"]) THEN environ["EDGEX_POLL_INTERVAL_SEC"]
    ELSE IF yamlFile.data["poll_interval_sec"] = Absent THEN VFloat(5, 2)
    ELSE yamlFile.data["poll_interval_sec"]

\* A value float() does not accept: None, or a string that is no number.
NonNumeric(v) == v.t = "none" \/ (v.t = "str" /\ PyFloat(v).t = "raise")

\* C7, as claimed: the poll interval handed to GridEngine is at least 1.5,
\* and a non-numeric input yields 2.5.
C7_PollAtLeastFloor ==
    engine.made =>
        /\ AtLeastFloor(engine.poll_interval_sec)
        /\ NonNumeric(PollRaw) => engine.poll_interval_sec = VFloat(5, 2)

\* C8, as claimed: the base URL passes iff it has a scheme and a host and the
\* host does not contain "example"; without scheme or host the run ends in
\* the invalid-endpoint SystemExit, with "example" in the host in the
\* placeholder SystemExit, and then no GET is issued and nothing is built.
C8_UrlPassesIffSchemeAndHost ==
    (InTrace("validate") /\ base_url.t = "str" /\ ~UrlParse(base_url.s).error) =>
        LET parsed == UrlParse(base_url.s)
            host == IF parsed.hostname = None THEN <<>> ELSE parsed.hostname.s
            wellFormed == parsed.scheme # <<>> /\ host # <<>>
            passed == ~(pc = "done" /\ Len(trace) = 1)
        IN  /\ passed <=> (wellFormed /\ ~Contains(host, <<"e", "x", "a", "m", "p", "l", "e">>))
            /\ ~wellFormed =>
                  exit = "SystemExit" /\ message = "base_url_invalid"
            /\ (wellFormed /\ Contains(host, <<"e", "x", "a", "m", "p", "l", "e">>)) =>
                  exit = "SystemExit" /\ message = "base_url_placeholder"
            /\ ~passed => ~InTrace("get") /\ ~adapter.made /\ ~engine.made

IsPrefix(s, t) == Len(s) <= Len(t) /\ SubSeq(t, 1, Len(s)) = s

\* C9: the stages happen in the fixed order, each at most once; a stage that
\* ends the run is the last one; on the successful path the adapter, then the
\* engine, are constructed once before engine.run().
C9_StageOrder ==
    /\ IsPrefix(trace, StageOrder)
    /\ adapter.made => InTrace("adapter")
    /\ engine.made <=> InTrace("engine")
    /\ engine.made => engine.adapter = adapter /\ adapter.made
    /\ message \in {"base_url_invalid", "base_url_placeholder"} => trace = <<"validate">>
    /\ message \in GateMessages => trace = <<"validate", "get">>
    /\ message \in ConfigMessages => trace = <<"validate", "get", "required">>
    /\ (exit = "Exception" /\ InTrace("get")) =>
            trace = <<"validate", "get", "required", "adapter">> /\ ~adapter.made
    /\ (pc = "running" \/ exit = "returned") =>
            trace = StageOrder /\ adapter.made /\ engine.made
    /\ InTrace("run") => adapter.made /\ engine.made

C9_Witness == pc = "running" /\ trace = StageOrder /\ engine.adapter = adapter

\* C10, as claimed: the adapter's integer account id, written in decimal, is
\* the accountId the service approved, and a run that passed the gate ends in
\* SystemExit or with the engine started.
C10_AdapterAccountIsAuthorized ==
    /\ adapter.made => VStr(PyStr(adapter.account_id)) = acct_str
    /\ (pc = "done" /\ Confirms(response)) =>
            exit = "SystemExit" \/ InTrace("run")
=============================================================================
